---------------------------- MODULE Spec2Model ----------------------------
(***************************************************************************)
(* The trade cycle of the execution bot (order_flow.py): the consecutive-  *)
(* failure circuit breaker, the per-symbol cooldown, the signal loop of    *)
(* process_signals, open_position and place_stop_loss_with_retry.          *)
(*                                                                         *)
(* Units.  Prices are integers in 1e-6 USDT, quantities in 1e-3 contracts, *)
(* wallet balances in whole USDT, time in seconds.  Arithmetic that the    *)
(* code does in binary floating point is done here exactly (on rationals   *)
(* num/den), so a comparison that sits exactly on a threshold is decided   *)
(* as real arithmetic decides it.                                          *)
(*                                                                         *)
(* One action is one stretch of a coroutine between two points at which it *)
(* waits for the exchange or the signal service; the answers of those      *)
(* collaborators are the \E-bound inputs of the action.                    *)
(***************************************************************************)
EXTENDS Integers, Sequences, FiniteSets, TLC

(***************************************************************************)
(* Program constants                                                       *)
(***************************************************************************)
MAX_CONSECUTIVE_FAILURES == 3
BREAKER_RESET_SEC == 900
COOLDOWN_SEC == 120
MAX_CONCURRENT_POSITIONS == 7
\* FIXED_PCT_PER_TRADE = 0.10, in percent
FIXED_PCT_PER_TRADE == 10
LEVERAGE == 5
\* STOP_LOSS_PCT = 0.006, in 1/1000
STOP_LOSS_PCT == 6
\* MAX_CONCURRENT_POSITIONS * (100 / MAX_CONCURRENT_POSITIONS), line 196
MARGIN_CAP_PCT == 100
\* conf_threshold = 0.7, in percent
CONF_THRESHOLD == 70

(***************************************************************************)
(* Bounds of the model                                                     *)
(***************************************************************************)
MaxSignals == 2

(***************************************************************************)
(* Input domains                                                           *)
(***************************************************************************)
NoValue == -1

\* _resolve_alias: ALIAS_MAP.get(symbol, symbol)
resolve_alias(sym) ==
    CASE sym = "PEPEUSDT" -> "1000PEPEUSDT"
      [] sym = "ORDIUSDT" -> "1000ORDIUSDT"
      [] sym = "BONKUSDT" -> "1000BONKUSDT"
      [] sym = "WIFUSDT"  -> "1000WIFUSDT"
      [] OTHER -> sym

\* symbols of the exchange that the model trades
ExchangeSymbols == {"1000PEPEUSDT", "BTCUSDT"}

\* A string is held as the sequence of its tokens; a signal's "symbol" string as
\* the pair <<text before the last token, last token>>.

\* entries of an {"opportunities": [...]} payload: {model_id, probability (percent)}
Opportunities ==
    { [model_id |-> <<"PEPEUSDT", "_long_", "v123">>, probability |-> 85],
      [model_id |-> <<"btcusdt", "_short_", "v123">>, probability |-> 70],
      [model_id |-> <<"BTCUSDT", "_long_", "v123">>, probability |-> 69],
      [model_id |-> <<"BTCUSDT", "_hold_", "v123">>, probability |-> 90] }

\* entries of a flat-array payload: {symbol, confidence (percent)}
ListItems ==
    { [symbol |-> <<"BTCUSDT", "_HOLD">>, confidence |-> 90],
      [symbol |-> <<"BTCUSDT", "_short">>, confidence |-> 80],
      [symbol |-> <<"PEPEUSDT", "_LONG">>, confidence |-> 60] }

\* entries of a flat array of delimited strings "SYMBOL_DIRECTION score"
StringItems ==
    { [symbol |-> <<"PEPEUSDT", "_LONG">>, score |-> 88],
      [symbol |-> <<"BTCUSDT", "_SHORT">>, score |-> 60] }

RECURSIVE SeqsUpTo(_, _)
SeqsUpTo(S, n) ==
    IF n = 0 THEN { <<>> }
    ELSE LET shorter == SeqsUpTo(S, n - 1)
         IN  shorter \cup { Append(s, x) : s \in shorter, x \in S }

\* what GET /api/analysis answers
Payloads ==
    { [shape |-> "opportunities", items |-> s] : s \in SeqsUpTo(Opportunities, MaxSignals) }
      \cup { [shape |-> "list", items |-> s] : s \in SeqsUpTo(ListItems, MaxSignals) }
      \cup { [shape |-> "strings", items |-> s] : s \in SeqsUpTo(StringItems, MaxSignals) }

NoPayload == [shape |-> "none", items |-> <<>>]

\* the instants at which the clock is read (time.time() is far from the 0 that
\* _breaker_ts starts with); their differences fall on both sides of
\* COOLDOWN_SEC (0, 60 / 840, 900) and of BREAKER_RESET_SEC (840 / 900)
Instants   == {1000, 1060, 1900}
Balances   == {2}                      \* totalWalletBalance, USDT
MarkPrices == {0, 1000000}             \* markPrice, 1e-6 USDT
AvgPrices  == {0, 1000000, 1060000}    \* avgPrice of the entry fill (0: not reported)
TickSizes  == {1000, 100000}           \* PRICE_FILTER tickSize, 1e-6 USDT
StepSizes  == {1, 2000}                \* LOT_SIZE stepSize, 1e-3 contracts
MarginPcts == {50, 100}
StopOutcomes == {"ok", "-1111", "other"}

\* positions the account holds in symbols that no signal names; they stay open
\* for the whole run (current_positions reports them in every cycle)
HeldSets ==
    { {"ETHUSDT", "SOLUSDT", "BNBUSDT", "XRPUSDT", "ADAUSDT"},
      {"ETHUSDT", "SOLUSDT", "BNBUSDT", "XRPUSDT", "ADAUSDT", "DOGEUSDT"} }

(***************************************************************************)
(* State                                                                   *)
(***************************************************************************)
VARIABLES
    consecutive_failures,        \* _consecutive_failures
    circuit_breaker_triggered,   \* _circuit_breaker_triggered
    breaker_ts,                  \* _breaker_ts
    initial_balance,             \* _initial_balance (NoValue: None)
    last_closed,                 \* _last_closed: symbol -> timestamp (NoValue: absent)
    prev_open,                   \* _prev_open
    now,                         \* time.time()
    held,                        \* the exchange: the account's positions in other symbols
    pc,                          \* where process_signals / open_position stands
    open_symbols,                \* process_signals' local open_symbols
    entered,                     \* history: the symbols this cycle has sent an entry order for
    signals,                     \* the signals the for loop has still to take
    payload,                     \* history: the payload the cycle's fetch_signals got
    symbol, side,                \* open_position's arguments
    quantity, entry_price,       \* open_position's locals
    raw_qty, step_size,          \* get_proper_quantity's raw_qty (<<num, den>>) and the symbol's stepSize
    base_price, tick_size, bump, \* place_stop_loss_with_retry's locals (bump: index into bumps)
    orders,                      \* history: the orders sent to the exchange by the current attempt
    result,                      \* history: how the last open_position ended
    error,                       \* history: the exception that ended it ("" when none)
    cycle,                       \* history: how the last process_signals began / ended
    verdict                      \* history: what the loop did with the last signal it took

safety == <<consecutive_failures, circuit_breaker_triggered, breaker_ts,
            initial_balance, last_closed, prev_open>>
attempt == <<symbol, side, quantity, entry_price, raw_qty, step_size, base_price,
             tick_size, bump>>
vars == <<consecutive_failures, circuit_breaker_triggered, breaker_ts,
          initial_balance, last_closed, prev_open, now, held, pc, open_symbols, entered,
          signals, payload, symbol, side, quantity, entry_price, raw_qty, step_size,
          base_price, tick_size, bump, orders, result, error, cycle, verdict>>

(***************************************************************************)
(* Circuit breaker (order_flow.py 5-33), on the triple of its globals      *)
(***************************************************************************)
Breaker ==
    [failures |-> consecutive_failures,
     triggered |-> circuit_breaker_triggered,
     ts |-> breaker_ts]

SetBreaker(b) ==
    /\ consecutive_failures' = b.failures
    /\ circuit_breaker_triggered' = b.triggered
    /\ breaker_ts' = b.ts

reset_circuit_breaker(b) ==
    [b EXCEPT !.failures = 0, !.triggered = FALSE]

\* variant: the trip time is stamped only by the failure that trips the breaker
increment_failure_count_first_stamp(b, t) ==
    LET n == b.failures + 1
    IN  IF n >= MAX_CONSECUTIVE_FAILURES
        THEN [failures |-> n, triggered |-> TRUE, ts |-> IF b.triggered THEN b.ts ELSE t]
        ELSE [b EXCEPT !.failures = n]

\* variant: the breaker trips one failure late
increment_failure_count_late(b, t) ==
    LET n == b.failures + 1
    IN  IF n > MAX_CONSECUTIVE_FAILURES
        THEN [failures |-> n, triggered |-> TRUE, ts |-> t]
        ELSE [b EXCEPT !.failures = n]

increment_failure_count(b, t) ==
    LET n == b.failures + 1
    IN  IF n >= MAX_CONSECUTIVE_FAILURES
        THEN [failures |-> n, triggered |-> TRUE, ts |-> t]
        ELSE [b EXCEPT !.failures = n]

\* variant: a check that finds the breaker active stamps the trip time anew
is_circuit_breaker_active_restamp(b, t) ==
    IF b.triggered /\ (t - b.ts) >= BREAKER_RESET_SEC
    THEN reset_circuit_breaker(b)
    ELSE IF b.triggered THEN [b EXCEPT !.ts = t] ELSE b

\* variant: the auto-reset needs more than 900 s
is_circuit_breaker_active_strict(b, t) ==
    IF b.triggered /\ (t - b.ts) > BREAKER_RESET_SEC
    THEN reset_circuit_breaker(b)
    ELSE b

\* the globals after is_circuit_breaker_active(); its return value is their .triggered
is_circuit_breaker_active(b, t) ==
    IF b.triggered /\ (t - b.ts) >= BREAKER_RESET_SEC
    THEN reset_circuit_breaker(b)
    ELSE b

(***************************************************************************)
(* Helpers                                                                 *)
(***************************************************************************)
\* str.upper() on a token
Upper(token) ==
    CASE token = "_long" -> "_LONG"
      [] token = "_short" -> "_SHORT"
      [] token = "btcusdt" -> "BTCUSDT"
      [] OTHER -> token

\* parse_signal: <<ok, binance symbol, side>>; ok = FALSE is the ValueError
parse_signal(sig) ==
    LET s == <<Upper(sig[1]), Upper(sig[2])>>
    IN  IF s[2] = "_LONG" THEN <<TRUE, resolve_alias(s[1]), "BUY">>
        ELSE IF s[2] = "_SHORT" THEN <<TRUE, resolve_alias(s[1]), "SELL">>
        ELSE <<FALSE, "", "">>

(***************************************************************************)
(* fetch_signals (order_flow.py 128-162)                                   *)
(***************************************************************************)
\* token in model_id
Contains(str, token) == \E i \in DOMAIN str : str[i] = token

\* model_id.split(token)[0], for a model_id that contains the token
RECURSIVE SplitHead(_, _)
SplitHead(str, token) ==
    IF str = <<>> \/ Head(str) = token THEN ""
    ELSE Head(str) \o SplitHead(Tail(str), token)

\* variant: an entry exactly at the threshold does not qualify
Qualifies_above(score) == score > CONF_THRESHOLD

\* lines 142 and 162: the score >= conf_threshold
Qualifies(score) == score >= CONF_THRESHOLD

\* lines 137-158: the signals of the opportunities array, in its order
RECURSIVE OpportunitySignals(_)
OpportunitySignals(opps) ==
    IF opps = <<>> THEN <<>>
    ELSE LET opp == Head(opps)
             rest == OpportunitySignals(Tail(opps))
         IN  IF ~Qualifies(opp.probability) THEN rest
             ELSE IF Contains(opp.model_id, "_long_")
             THEN << <<SplitHead(opp.model_id, "_long_"), "_LONG">> >> \o rest
             ELSE IF Contains(opp.model_id, "_short_")
             THEN << <<SplitHead(opp.model_id, "_short_"), "_SHORT">> >> \o rest
             ELSE rest

\* line 162: [item for item in data if item.get("confidence", 0) >= conf_threshold]
ListSignals(items) ==
    LET kept == SelectSeq(items, LAMBDA item : Qualifies(item.confidence))
    IN  [i \in DOMAIN kept |-> kept[i].symbol]

\* line 162 on an array of strings: item.get is looked up on a str, which raises
\* AttributeError for the first item (an empty array is returned as it is)
fetch_signals_raises(data) ==
    data.shape = "strings" /\ data.items # <<>>

\* the "symbol" strings of the dicts fetch_signals returns, when it returns
fetch_signals(data) ==
    IF data.shape = "opportunities"
    THEN OpportunitySignals(data.items)
    ELSE IF data.shape = "list"
    THEN ListSignals(data.items)
    ELSE <<>>

\* Python's round(num / den) for num >= 0, den > 0: to nearest, ties to even
RoundHalfEven(num, den) ==
    LET q == num \div den
        r == num % den
    IN  IF 2 * r > den THEN q + 1
        ELSE IF 2 * r < den THEN q
        ELSE IF q % 2 = 0 THEN q ELSE q + 1


(***************************************************************************)
(* Precision (order_flow.py 242-289)                                       *)
(***************************************************************************)
\* notional / mark_price in 1e-3 contracts as the fraction <<num, den>>, where
\* notional = balance * FIXED_PCT_PER_TRADE * LEVERAGE; mark > 0
RawQuantity(balance, mark) ==
    << balance * FIXED_PCT_PER_TRADE * LEVERAGE * 10000000, mark >>

\* get_proper_quantity, LOT_SIZE branch: floor to a multiple of stepSize
QuantityByStep(raw, step) ==
    ((raw[1] \div raw[2]) \div step) * step

\* get_proper_quantity, fallback branch: int() / round(,1) / round(,3) by magnitude
QuantityFallback(raw) ==
    IF raw[1] \div raw[2] >= 1000 * 1000
    THEN ((raw[1] \div raw[2]) \div 1000) * 1000
    ELSE IF raw[1] \div raw[2] >= 10 * 1000
    THEN RoundHalfEven(raw[1], raw[2] * 100) * 100
    ELSE RoundHalfEven(raw[1], raw[2])

\* entry_price * (1 -/+ STOP_LOSS_PCT) in 1e-6 USDT as the fraction <<num, den>>
RawStopPrice(sd, entry) ==
    IF sd = "BUY"
    THEN << entry * (1000 - STOP_LOSS_PCT), 1000 >>
    ELSE << entry * (1000 + STOP_LOSS_PCT), 1000 >>

\* get_proper_price, PRICE_FILTER branch: round(price / tick_size) * tick_size
PriceByTick(raw, tick) ==
    RoundHalfEven(raw[1], raw[2] * tick) * tick

\* get_proper_price, fallback branch: round(price, 6)
PriceFallback(raw) ==
    RoundHalfEven(raw[1], raw[2])

validate_order_params(sym, qty, entry, sl) ==
    /\ sym # ""
    /\ qty > 0
    /\ entry > 0
    /\ sl > 0

\* actual_sl_pct > (STOP_LOSS_PCT * 100) * 2, for entry > 0 (signed, as the code has it)
SlTooFar(sd, entry, sl) ==
    LET dist == IF sd = "BUY" THEN entry - sl ELSE sl - entry
    IN  dist * 1000 > 2 * STOP_LOSS_PCT * entry

\* variant: the downward bumps tried before the upward ones
bumps_down_first == <<0, -1, -2, -3, -4, -5, -6, -7, -8, -9, -10,
                      1, 2, 3, 4, 5, 6, 7, 8, 9, 10>>

\* bumps = [0] + list(range(1, 11)) + list(range(-1, -11, -1))
bumps == <<0, 1, 2, 3, 4, 5, 6, 7, 8, 9, 10,
           -1, -2, -3, -4, -5, -6, -7, -8, -9, -10>>

\* BinanceClient.place_market_order (binance_client.py 85-106): the call's
\* arguments (stop_price NoValue: None), the order type it derives from them, and
\* the exchange's answer ("ok", "-1111": the precision rejection, "other")
Order(sym, sd, qty, reduce_only, stop_price, outcome) ==
    [symbol |-> sym,
     side |-> sd,
     quantity |-> qty,
     reduceOnly |-> reduce_only,
     stop_price |-> stop_price,
     type |-> IF stop_price = NoValue \/ stop_price = 0 THEN "MARKET" ELSE "STOP_MARKET",
     outcome |-> outcome]

(***************************************************************************)
(* Initial state: the module's globals as order_flow.py sets them          *)
(***************************************************************************)
NoAttempt ==
    /\ symbol' = ""
    /\ side' = ""
    /\ quantity' = 0
    /\ entry_price' = 0
    /\ raw_qty' = <<0, 1>>
    /\ step_size' = 0
    /\ base_price' = 0
    /\ tick_size' = 0
    /\ bump' = 0
    /\ orders' = <<>>
    /\ result' = "none"
    /\ error' = ""

InitGlobals ==
    /\ consecutive_failures = 0
    /\ circuit_breaker_triggered = FALSE
    /\ breaker_ts = 0
    /\ initial_balance = NoValue
    /\ last_closed = [s \in ExchangeSymbols |-> NoValue]
    /\ prev_open = {}
    /\ now = CHOOSE t \in Instants : \A u \in Instants : t <= u
    /\ pc = "idle"
    /\ open_symbols = {}
    /\ entered = {}
    /\ signals = <<>>
    /\ payload = NoPayload
    /\ symbol = ""
    /\ side = ""
    /\ quantity = 0
    /\ entry_price = 0
    /\ raw_qty = <<0, 1>>
    /\ step_size = 0
    /\ base_price = 0
    /\ tick_size = 0
    /\ bump = 0
    /\ orders = <<>>
    /\ result = "none"
    /\ error = ""
    /\ cycle = "none"
    /\ verdict = ""

\* an account without positions in other symbols
Init ==
    /\ InitGlobals
    /\ held = {}

\* an account that holds five or six positions in other symbols
InitCap ==
    /\ InitGlobals
    /\ held \in HeldSets

(***************************************************************************)
(* The clock                                                               *)
(***************************************************************************)
\* time.time() is read at lines 24, 30, 186 and 218 only.  The clock moves in the
\* states from which one of these reads comes next without another read in
\* between (before the cycle starts, before the account is read, before a signal
\* is evaluated, while an attempt is under way): every non-decreasing sequence
\* of readings is produced.
ClockRead == {"idle", "account", "loop", "leverage"}

Tick ==
    /\ pc \in ClockRead
    /\ \E t \in Instants :
         /\ t > now
         /\ now' = t
    /\ UNCHANGED <<safety, held, pc, open_symbols, entered, signals, payload, attempt, orders, result, error,
                   cycle, verdict>>

(***************************************************************************)
(* process_signals (order_flow.py 165-239)                                 *)
(***************************************************************************)
\* variant: no handler around the client block, an exception leaves process_signals
EndCycle_unhandled(how) ==
    /\ pc' = IF how = "error" THEN "propagated" ELSE "idle"
    /\ cycle' = how
    /\ open_symbols' = {}
    /\ entered' = {}
    /\ signals' = <<>>
    /\ payload' = NoPayload

\* the cycle leaves process_signals: `how` is the way it ended
EndCycle(how) ==
    /\ pc' = "idle"
    /\ cycle' = how
    /\ open_symbols' = {}
    /\ entered' = {}
    /\ signals' = <<>>
    /\ payload' = NoPayload

\* lines 167-175: the breaker check, then BinanceClient() and __aenter__
StartCycle ==
    /\ pc = "idle"
    /\ LET b == is_circuit_breaker_active(Breaker, now)
       IN  /\ SetBreaker(b)
           /\ IF b.triggered
              THEN /\ cycle' = "breaker"
                   /\ UNCHANGED pc
              ELSE /\ cycle' = IF circuit_breaker_triggered THEN "reset" ELSE "running"
                   /\ pc' = "account"
    /\ verdict' = ""
    /\ payload' = NoPayload
    /\ UNCHANGED <<initial_balance, last_closed, prev_open, now, held, open_symbols, entered,
                   signals, attempt, orders, result, error>>

\* lines 175-191: client construction, initialize_balance_monitoring, current_positions
\* and the cooldown bookkeeping
ReadAccount ==
    /\ pc = "account"
    /\ \/ \* BinanceClient() raises (API keys missing): caught at line 238
          /\ EndCycle("error")
          /\ UNCHANGED <<initial_balance, last_closed, prev_open>>
       \/ \E bal \in Balances \cup {NoValue} :
            /\ initial_balance' = bal
            /\ \/ \* current_positions raises: caught at line 238
                  /\ EndCycle("error")
                  /\ UNCHANGED <<last_closed, prev_open>>
               \/ \E positions \in SUBSET ExchangeSymbols :
                    LET current_open == positions \cup held IN
                    /\ last_closed' =
                         [s \in ExchangeSymbols |->
                            IF s \in prev_open \ current_open THEN now
                            ELSE last_closed[s]]
                    /\ prev_open' = current_open
                    /\ open_symbols' = current_open
                    /\ pc' = "margin"
                    /\ cycle' = "running"
                    /\ UNCHANGED <<signals, payload, entered>>
    /\ UNCHANGED <<consecutive_failures, circuit_breaker_triggered, breaker_ts,
                   now, held, attempt, orders, result, error, verdict>>

\* lines 193-198
ReadMargin ==
    /\ pc = "margin"
    /\ \/ EndCycle("error")
       \/ \E margin_pct \in MarginPcts :
            IF margin_pct >= MARGIN_CAP_PCT
            THEN EndCycle("margin")
            ELSE /\ pc' = "fetch"
                 /\ UNCHANGED <<open_symbols, entered, signals, payload, cycle>>
    /\ UNCHANGED <<safety, now, held, attempt, orders, result, error, verdict>>

\* lines 200-210: fetch_signals() and the empty-list return; `record` says whether
\* the history variable payload keeps the answer of the signal service
Fetch(record) ==
    /\ pc = "fetch"
    /\ \/ EndCycle("fetch")
       \/ \E data \in Payloads :
            LET sigs == fetch_signals(data)
            IN  IF fetch_signals_raises(data)
                THEN \* caught at line 202: "Fetch signals failed", return
                     /\ pc' = "idle"
                     /\ cycle' = "fetch"
                     /\ open_symbols' = {}
                     /\ entered' = {}
                     /\ signals' = <<>>
                     /\ payload' = IF record THEN data ELSE NoPayload
                ELSE IF sigs = <<>>
                THEN EndCycle("nosignals")
                ELSE /\ signals' = sigs
                     /\ payload' = IF record THEN data ELSE payload
                     /\ pc' = "loop"
                     /\ UNCHANGED <<open_symbols, entered, cycle>>
    /\ UNCHANGED <<safety, now, held, attempt, orders, result, error, verdict>>

FetchSignals == Fetch(FALSE)

FetchSignalsRecorded == Fetch(TRUE)

\* variant: the comparison of the cooldown test turned round
InCooldown_inverted(sym) ==
    /\ sym \in DOMAIN last_closed
    /\ last_closed[sym] # NoValue
    /\ (now - last_closed[sym]) >= COOLDOWN_SEC

\* line 218: symbol in _last_closed and (time.time() - _last_closed[symbol]) < _COOLDOWN_SEC
InCooldown(sym) ==
    /\ sym \in DOMAIN last_closed
    /\ last_closed[sym] # NoValue
    /\ (now - last_closed[sym]) < COOLDOWN_SEC

\* variant: the cap lets one position too many through
CapReached_late(open) == Cardinality(open) > MAX_CONCURRENT_POSITIONS

\* line 224: len(open_symbols) >= MAX_CONCURRENT_POSITIONS
CapReached(open) == Cardinality(open) >= MAX_CONCURRENT_POSITIONS

\* lines 212-229: one turn of the for loop up to the call of open_position
EvaluateSignal ==
    /\ pc = "loop"
    /\ UNCHANGED <<safety, now, held>>
    /\ IF signals = <<>>
       THEN /\ EndCycle("complete")
            /\ NoAttempt
            /\ verdict' = ""
       ELSE LET p == parse_signal(Head(signals))
                sym == p[2]
            IN  IF ~p[1]
                THEN \* ValueError out of the loop, caught at line 238
                     /\ EndCycle("error")
                     /\ NoAttempt
                     /\ verdict' = "unparsable"
                ELSE IF InCooldown(sym)
                THEN /\ signals' = Tail(signals)
                     /\ NoAttempt
                     /\ verdict' = "cooldown"
                     /\ UNCHANGED <<pc, open_symbols, entered, cycle, payload>>
                ELSE IF sym \in open_symbols
                THEN /\ signals' = Tail(signals)
                     /\ NoAttempt
                     /\ verdict' = "open"
                     /\ UNCHANGED <<pc, open_symbols, entered, cycle, payload>>
                ELSE IF CapReached(open_symbols)
                THEN /\ EndCycle("complete")
                     /\ NoAttempt
                     /\ verdict' = "cap"
                ELSE /\ pc' = "leverage"
                     /\ symbol' = sym
                     /\ side' = p[3]
                     /\ quantity' = 0
                     /\ entry_price' = 0
                     /\ raw_qty' = <<0, 1>>
                     /\ step_size' = 0
                     /\ base_price' = 0
                     /\ tick_size' = 0
                     /\ bump' = 0
                     /\ orders' = <<>>
                     /\ result' = "none"
                     /\ error' = ""
                     /\ verdict' = "attempt"
                     /\ UNCHANGED <<open_symbols, entered, signals, payload, cycle>>

(***************************************************************************)
(* How process_signals takes the end of open_position (lines 229-235)      *)
(***************************************************************************)
\* open_position returned: open_symbols.add(symbol); reset_circuit_breaker().
\* b is the breaker as open_position left it.
ReportSuccess(b) ==
    /\ SetBreaker(reset_circuit_breaker(b))
    /\ open_symbols' = open_symbols \cup {symbol}
    /\ result' = "returned"
    /\ error' = ""
    /\ pc' = "loop"
    /\ signals' = Tail(signals)
    /\ UNCHANGED payload

\* variant: a failed attempt leaves the for loop
ReportFailure_abort(msg) ==
    /\ SetBreaker(increment_failure_count(Breaker, now))
    /\ result' = "raised"
    /\ error' = msg
    /\ pc' = "idle"
    /\ signals' = <<>>
    /\ UNCHANGED <<open_symbols, payload>>

\* open_position raised: increment_failure_count()
ReportFailure(msg) ==
    /\ SetBreaker(increment_failure_count(Breaker, now))
    /\ result' = "raised"
    /\ error' = msg
    /\ pc' = "loop"
    /\ signals' = Tail(signals)
    /\ UNCHANGED <<open_symbols, payload>>

(***************************************************************************)
(* open_position (order_flow.py 320-397)                                   *)
(***************************************************************************)
SlSide(sd) == IF sd = "BUY" THEN "SELL" ELSE "BUY"

\* variant: a failed set_leverage is noted and the attempt goes on
SetLeverage_unchecked ==
    /\ pc = "leverage"
    /\ pc' = "size"
    /\ error' \in {"", "set_leverage"}
    /\ UNCHANGED <<consecutive_failures, circuit_breaker_triggered, breaker_ts,
                   open_symbols, signals, payload, result>>
    /\ UNCHANGED <<initial_balance, last_closed, prev_open, now, held, entered, attempt, orders,
                   cycle, verdict>>

\* lines 324-326
SetLeverage ==
    /\ pc = "leverage"
    /\ \/ /\ pc' = "size"
          /\ UNCHANGED <<consecutive_failures, circuit_breaker_triggered, breaker_ts,
                         open_symbols, signals, payload, result, error>>
       \/ ReportFailure("set_leverage")
    /\ UNCHANGED <<initial_balance, last_closed, prev_open, now, held, entered, attempt, orders, cycle, verdict>>

\* variant: the zero-quantity return left out (only a negative quantity skips)
ZeroQuantity_never(qty) == qty < 0

\* line 335: if quantity == 0
ZeroQuantity(qty) == qty = 0

\* lines 328-339: wallet_balance, get_proper_quantity, the zero-quantity return
SizePosition ==
    /\ pc = "size"
    /\ UNCHANGED <<initial_balance, last_closed, prev_open, now, held, entered, symbol, side,
                   entry_price, base_price, tick_size, bump, orders, cycle,
                   verdict>>
    /\ \/ /\ ReportFailure("wallet_balance")
          /\ UNCHANGED <<quantity, raw_qty, step_size>>
       \/ \E balance \in Balances, info_ok \in BOOLEAN, step \in StepSizes,
             mark \in MarkPrices \cup {NoValue} :
            \* the LOT_SIZE branch needs the symbol info and a mark price > 0
            IF info_ok /\ mark > 0
            THEN LET raw == RawQuantity(balance, mark)
                     qty == QuantityByStep(raw, step)
                 IN  /\ quantity' = qty
                     /\ raw_qty' = raw
                     /\ step_size' = step
                     /\ IF ZeroQuantity(qty)
                        THEN ReportSuccess(Breaker)
                        ELSE /\ pc' = "entry"
                             /\ UNCHANGED <<consecutive_failures, circuit_breaker_triggered,
                                            breaker_ts, open_symbols, signals, payload, result, error>>
            ELSE \* except branch: get_mark_price is asked again
                 \E mark2 \in MarkPrices \cup {NoValue} :
                    IF mark2 <= 0
                    THEN /\ ReportFailure("mark_price")
                         /\ UNCHANGED <<quantity, raw_qty, step_size>>
                    ELSE LET raw == RawQuantity(balance, mark2)
                             qty == QuantityFallback(raw)
                         IN  /\ quantity' = qty
                             /\ raw_qty' = raw
                             /\ step_size' = step
                             /\ IF ZeroQuantity(qty)
                                THEN ReportSuccess(Breaker)
                                ELSE /\ pc' = "entry"
                                     /\ UNCHANGED <<consecutive_failures,
                                                    circuit_breaker_triggered, breaker_ts,
                                                    open_symbols, signals, payload, result, error>>

\* lines 341-388 and 294-300: the entry order, the entry and stop prices, the two
\* checks, and the symbol info place_stop_loss_with_retry starts with
PlaceEntry ==
    /\ pc = "entry"
    /\ UNCHANGED <<initial_balance, last_closed, prev_open, now, held, symbol, side,
                   quantity, cycle, verdict>>
    /\ entered' = entered \cup {symbol}
    \* get_proper_quantity's locals are gone once its value has been used
    /\ raw_qty' = <<0, 1>>
    /\ step_size' = 0
    /\ \/ /\ orders' = Append(orders, Order(symbol, side, quantity, FALSE, NoValue, "other"))
          /\ ReportFailure("entry_order")
          /\ UNCHANGED <<entry_price, base_price, tick_size, bump>>
       \/ /\ orders' = Append(orders, Order(symbol, side, quantity, FALSE, NoValue, "ok"))
          /\ \E avg \in AvgPrices, mark \in MarkPrices \cup {NoValue} :
               LET entry == IF avg = 0 THEN mark ELSE avg
               IN  IF entry = NoValue
                   THEN /\ ReportFailure("mark_price")
                        /\ UNCHANGED <<entry_price, base_price, tick_size, bump>>
                   ELSE \E tick \in TickSizes, price_info_ok \in BOOLEAN :
                          LET raw == RawStopPrice(side, entry)
                              sl_price == IF price_info_ok THEN PriceByTick(raw, tick)
                                          ELSE PriceFallback(raw)
                          IN  /\ entry_price' = entry
                              /\ base_price' = sl_price
                              /\ IF ~validate_order_params(symbol, quantity, entry, sl_price)
                                 THEN /\ ReportSuccess(increment_failure_count(Breaker, now))
                                      /\ UNCHANGED <<tick_size, bump>>
                                 ELSE IF SlTooFar(side, entry, sl_price)
                                 THEN /\ ReportSuccess(Breaker)
                                      /\ UNCHANGED <<tick_size, bump>>
                                 ELSE IF ~(sl_price > 0)
                                 THEN /\ ReportSuccess(Breaker)
                                      /\ UNCHANGED <<tick_size, bump>>
                                 ELSE \/ /\ ReportFailure("symbol_info")
                                         /\ UNCHANGED <<tick_size, bump>>
                                      \/ /\ tick_size' = tick
                                         /\ bump' = 1
                                         /\ pc' = "stop"
                                         /\ UNCHANGED <<consecutive_failures,
                                                        circuit_breaker_triggered,
                                                        breaker_ts, open_symbols,
                                                        signals, payload, result, error>>

(***************************************************************************)
(* place_stop_loss_with_retry (order_flow.py 292-317)                      *)
(***************************************************************************)
\* variant: every rejection is retried
IsPrecisionError_any(outcome) == outcome # "ok"

\* line 309: "-1111" in str(e)
IsPrecisionError(outcome) == outcome = "-1111"

\* price = base_price + bump * tick_size
StopCandidate(base, tick, i) == base + bumps[i] * tick

\* lines 302-312: one turn of the for loop over bumps; on success open_position
\* runs to its end (lines 389-397)
SubmitStop ==
    /\ pc = "stop"
    /\ UNCHANGED <<initial_balance, last_closed, prev_open, now, held, entered, symbol, side,
                   quantity, entry_price, raw_qty, step_size, base_price, tick_size,
                   cycle, verdict>>
    /\ LET price == StopCandidate(base_price, tick_size, bump)
       IN  \E outcome \in StopOutcomes :
             /\ orders' = Append(orders, Order(symbol, SlSide(side), quantity, TRUE,
                                               price, outcome))
             /\ CASE outcome = "ok" ->
                       /\ ReportSuccess(Breaker)
                       /\ UNCHANGED bump
                  [] IsPrecisionError(outcome) ->
                       /\ pc' = IF bump < Len(bumps) THEN "stop" ELSE "close"
                       /\ bump' = IF bump < Len(bumps) THEN bump + 1 ELSE bump
                       /\ UNCHANGED <<consecutive_failures, circuit_breaker_triggered,
                                      breaker_ts, open_symbols, signals, payload, result, error>>
                  [] OTHER ->
                       /\ ReportFailure("stop_order")
                       /\ UNCHANGED bump

\* variant: an accepted emergency close is still raised as a failed stop-loss
EmergencyClose_raises ==
    /\ pc = "close"
    /\ UNCHANGED <<initial_balance, last_closed, prev_open, now, held, entered, attempt, cycle, verdict>>
    /\ \/ /\ orders' = Append(orders, Order(symbol, SlSide(side), quantity, TRUE,
                                            NoValue, "ok"))
          /\ ReportFailure("stop_loss_rejected")
       \/ /\ orders' = Append(orders, Order(symbol, SlSide(side), quantity, TRUE,
                                            NoValue, "other"))
          /\ ReportFailure("stop_loss_and_emergency_close")

\* lines 313-317
EmergencyClose ==
    /\ pc = "close"
    /\ UNCHANGED <<initial_balance, last_closed, prev_open, now, held, entered, attempt, cycle, verdict>>
    /\ \/ /\ orders' = Append(orders, Order(symbol, SlSide(side), quantity, TRUE,
                                            NoValue, "ok"))
          /\ ReportSuccess(Breaker)
       \/ /\ orders' = Append(orders, Order(symbol, SlSide(side), quantity, TRUE,
                                            NoValue, "other"))
          /\ ReportFailure("stop_loss_and_emergency_close")

(***************************************************************************)
(* Specification                                                           *)
(***************************************************************************)
Next ==
    \/ Tick
    \/ StartCycle
    \/ ReadAccount
    \/ ReadMargin
    \/ FetchSignals
    \/ EvaluateSignal
    \/ SetLeverage
    \/ SizePosition
    \/ PlaceEntry
    \/ SubmitStop
    \/ EmergencyClose

Spec == Init /\ [][Next]_vars

\* the same program on an account close to the position cap
SpecCap == InitCap /\ [][Next]_vars

\* the same program with the payload of each fetch kept on record
NextRecorded ==
    \/ Tick
    \/ StartCycle
    \/ ReadAccount
    \/ ReadMargin
    \/ FetchSignalsRecorded
    \/ EvaluateSignal
    \/ SetLeverage
    \/ SizePosition
    \/ PlaceEntry
    \/ SubmitStop
    \/ EmergencyClose

SpecFetch == Init /\ [][NextRecorded]_vars

(***************************************************************************)
(* Reading the order history of the attempt under way (or just ended)      *)
(***************************************************************************)
\* the market entry order was accepted
EntryAccepted ==
    \E i \in DOMAIN orders : ~orders[i].reduceOnly /\ orders[i].outcome = "ok"

\* the calls place_stop_loss_with_retry made with a stop price (line 305)
StopCalls == { i \in DOMAIN orders : orders[i].reduceOnly /\ orders[i].stop_price # NoValue }

\* the requests that reached the exchange as reduce-only STOP_MARKET orders
StopOrders == { i \in DOMAIN orders : orders[i].reduceOnly /\ orders[i].type = "STOP_MARKET" }

\* the requests that reached the exchange as reduce-only MARKET orders (no stop price)
CloseOrders == { i \in DOMAIN orders : orders[i].reduceOnly /\ orders[i].type = "MARKET" }

AbsDiff(a, b) == IF a >= b THEN a - b ELSE b - a

(***************************************************************************)
(* C1 (stated as claimed; the code violates it).  While the breaker is     *)
(* tripped and fewer than 900 s have passed since the trip, no             *)
(* open_position attempt begins and no order is sent to the exchange.      *)
(***************************************************************************)
C1_TrippedBlocksAttempts ==
    [][ (circuit_breaker_triggered /\ now - breaker_ts < 900)
          => /\ ~(pc = "loop" /\ pc' = "leverage")
             /\ Len(orders') <= Len(orders) ]_vars

(***************************************************************************)
(* C2 (stated as claimed; the code violates it).  When open_position has   *)
(* returned normally after its entry order was accepted, a reduce-only     *)
(* order (the stop or the emergency close) has been accepted too.          *)
(***************************************************************************)
C2_EnteredPositionIsProtected ==
    (result = "returned" /\ EntryAccepted)
        => \E i \in DOMAIN orders : orders[i].reduceOnly /\ orders[i].outcome = "ok"

(***************************************************************************)
(* C3 (stated as claimed; the code violates it).  Every stop order sent    *)
(* during open_position, tick-bumped retries included, has a price > 0     *)
(* and lies within 2 x 0.6 % of the entry price, on either side.           *)
(***************************************************************************)
C3_StopWithinTwiceTarget ==
    \A i \in StopCalls :
        /\ orders[i].stop_price > 0
        /\ AbsDiff(entry_price, orders[i].stop_price) * 1000 <= 12 * entry_price

(***************************************************************************)
(* C4.  The breaker is tripped exactly when consecutive_failures >= 3, and *)
(* right after a success report consecutive_failures is 0 and the breaker  *)
(* is not tripped.                                                         *)
(***************************************************************************)
C4_TrippedIffThreeFailures ==
    /\ circuit_breaker_triggered <=> (consecutive_failures >= 3)
    /\ result = "returned" => (consecutive_failures = 0 /\ ~circuit_breaker_triggered)

\* a success was reported after the breaker had been tripped at some time
C4_Witness ==
    /\ result = "returned"
    /\ breaker_ts > 0
    /\ consecutive_failures = 0
    /\ ~circuit_breaker_triggered

(***************************************************************************)
(* C5.  The breaker check at the start of a cycle blocks the cycle exactly *)
(* when the breaker is tripped and fewer than 900 s have passed since the  *)
(* trip; when it lets a tripped breaker through, it leaves                 *)
(* consecutive_failures = 0 and the breaker not tripped.                   *)
(***************************************************************************)
C5_BlockedIffTrippedUnder900 ==
    [][ (pc = "idle" /\ now' = now /\ cycle' \in {"breaker", "reset", "running"})
          => LET blocked == circuit_breaker_triggered /\ now - breaker_ts < 900
             IN  /\ (pc' = "idle" /\ cycle' = "breaker") <=> blocked
                 /\ ~blocked => pc' = "account"
                 /\ (~blocked /\ circuit_breaker_triggered)
                       => (consecutive_failures' = 0 /\ ~circuit_breaker_triggered') ]_vars

\* a cycle has started 900 s or more after a trip and cleared the breaker
C5_Witness ==
    /\ pc = "account"
    /\ cycle = "reset"
    /\ now - breaker_ts >= 900
    /\ consecutive_failures = 0
    /\ ~circuit_breaker_triggered

(***************************************************************************)
(* C6.  open_position is never called for a symbol whose last_closed stamp *)
(* is less than 120 s old.                                                 *)
(***************************************************************************)
C6_NoEntryInCooldown ==
    [][ (pc = "loop" /\ pc' = "leverage")
          => ~( /\ symbol' \in DOMAIN last_closed
                /\ last_closed[symbol'] # NoValue
                /\ now - last_closed[symbol'] < 120 ) ]_vars

\* the loop has just skipped a signal for being in its cooldown window
C6_Witness ==
    /\ verdict = "cooldown"
    /\ pc = "loop"
    /\ \E s \in ExchangeSymbols : last_closed[s] # NoValue /\ now - last_closed[s] < 120

(***************************************************************************)
(* C7.  The stop candidates go out in the order base + k * tick for        *)
(* k = 0, +1..+10, -1..-10; each one after the first only when the one     *)
(* before it was rejected with -1111; none after an accepted one; at most  *)
(* 21 in all.                                                              *)
(***************************************************************************)
C7_Offset(j) == IF j <= 11 THEN j - 1 ELSE 11 - j

C7_CandidateOrder ==
    \A i \in StopCalls :
        /\ i >= 2 /\ i - 1 <= 21
        /\ orders[i].stop_price = base_price + C7_Offset(i - 1) * tick_size
        /\ i > 2 => (i - 1 \in StopCalls /\ orders[i - 1].outcome = "-1111")
        /\ orders[i].outcome = "ok" => i = Len(orders)

\* candidates 0, +1, +2 were rejected with -1111 and +3 was accepted
C7_Witness ==
    /\ Len(orders) = 5
    /\ \A i \in 2..4 : orders[i].outcome = "-1111"
    /\ orders[5].outcome = "ok"
    /\ orders[5].stop_price = base_price + 3 * tick_size
    /\ result = "returned"

(***************************************************************************)
(* C8.  A stop submission rejected with a code other than -1111 is the     *)
(* last order of the attempt, and the attempt has ended with that error.   *)
(***************************************************************************)
C8_OtherRejectionPropagates ==
    \A i \in StopCalls :
        orders[i].outcome \notin {"ok", "-1111"}
            => /\ i = Len(orders)
               /\ result = "raised"
               /\ error = "stop_order"
               /\ pc = "loop"

\* a candidate was rejected with another code after two precision rejections
C8_Witness ==
    /\ Len(orders) = 4
    /\ orders[2].outcome = "-1111"
    /\ orders[3].outcome = "-1111"
    /\ orders[4].outcome = "other"
    /\ 4 \in StopCalls

(***************************************************************************)
(* C9 (stated as claimed; the code violates it).  A reduce-only market     *)
(* close without stop price goes out at most once per attempt, only after  *)
(* 21 stop orders were all rejected with -1111, and always after them; if  *)
(* the close is rejected the attempt ends with the error naming both.      *)
(***************************************************************************)
C9_CloseOnlyAfterAllRejected ==
    /\ Cardinality(CloseOrders) <= 1
    /\ \A i \in CloseOrders :
          /\ Cardinality(StopOrders) = 21
          /\ \A j \in StopOrders : j < i /\ orders[j].outcome = "-1111"
          /\ orders[i].outcome # "ok"
                => (result = "raised" /\ error = "stop_loss_and_emergency_close")
    /\ (Cardinality(StopOrders) = 21 /\ \A j \in StopOrders : orders[j].outcome = "-1111")
          => (pc = "close" \/ CloseOrders # {})

(***************************************************************************)
(* C10 (stated as claimed; the code violates it).  An attempt is reported  *)
(* as a success only when its entry order and a stop order were accepted.  *)
(***************************************************************************)
C10_SuccessOnlyWithEntryAndStop ==
    result = "returned"
        => /\ EntryAccepted
           /\ \E i \in StopOrders : orders[i].outcome = "ok"

(***************************************************************************)
(* C11 (stated as claimed; the code violates it).  When the parameter      *)
(* validation of open_position fails, no stop order has been submitted     *)
(* and, when the loop has taken the end of that attempt,                   *)
(* consecutive_failures is exactly one higher than before the attempt.     *)
(***************************************************************************)
C11_ValidationFailureCounts ==
    [][ ( /\ pc = "entry"
          /\ pc' = "loop"
          /\ result' = "returned"
          /\ ~validate_order_params(symbol, quantity, entry_price', base_price') )
          => /\ StopCalls' = {}
             /\ consecutive_failures' = consecutive_failures + 1 ]_vars

(***************************************************************************)
(* C12.  An attempt whose quantized quantity is zero ends without any      *)
(* order: every order sent carries a quantity > 0, and an attempt that     *)
(* ended with quantity zero has sent none.                                 *)
(***************************************************************************)
C12_ZeroQuantityNoOrder ==
    /\ \A i \in DOMAIN orders : orders[i].quantity > 0
    /\ quantity = 0 => orders = <<>>
    /\ pc \in {"entry", "stop", "close"} => quantity > 0

\* open_position has got past set_leverage and the balance and ended on the
\* zero-quantity return
C12_Witness ==
    /\ pc = "loop"
    /\ verdict = "attempt"
    /\ result = "returned"
    /\ quantity = 0
    /\ orders = <<>>

(***************************************************************************)
(* C13 (stated as claimed; the code violates it).  The quantity that       *)
(* get_proper_quantity returns is an exact multiple of the symbol's        *)
(* stepSize and is not greater than raw_qty = notional / mark_price.       *)
(***************************************************************************)
C13_QuantityFlooredToStep ==
    step_size > 0
        => /\ quantity % step_size = 0
           /\ quantity * raw_qty[2] <= raw_qty[1]

(***************************************************************************)
(* C14.  open_position is called only while open_symbols has fewer than 7  *)
(* members; open_symbols never shrinks during the loop, so once the cap is *)
(* reached nothing more is attempted; every reported success adds one new  *)
(* symbol, and the successes of a cycle that began with n open symbols     *)
(* (the symbols in open_symbols but not in prev_open) number at most       *)
(* max(0, 7 - n).                                                          *)
(***************************************************************************)
C14_InLoop == {"loop", "leverage", "size", "entry", "stop", "close"}

C14_Room == IF Cardinality(prev_open) >= 7 THEN 0 ELSE 7 - Cardinality(prev_open)

C14_CapBoundsSuccesses ==
    /\ [][ (pc = "loop" /\ pc' = "leverage") => Cardinality(open_symbols) < 7 ]_vars
    /\ [][ (pc \in C14_InLoop /\ pc' \in C14_InLoop)
              => open_symbols \subseteq open_symbols' ]_vars
    /\ [][ (pc \in C14_InLoop /\ pc # "loop" /\ result' = "returned")
              => /\ symbol \notin open_symbols
                 /\ open_symbols' = open_symbols \cup {symbol}
                 /\ Cardinality(open_symbols) < 7 ]_vars
    /\ [][ (pc \in C14_InLoop /\ pc # "loop" /\ result' # "returned")
              => open_symbols' = open_symbols ]_vars
    /\ [](pc \in C14_InLoop
            => /\ prev_open \subseteq open_symbols
               /\ Cardinality(open_symbols \ prev_open) <= C14_Room)

\* a cycle that began with 6 open symbols has opened a 7th, met a further signal
\* for a symbol it could have attempted, and stopped at the cap
C14_Witness ==
    /\ verdict = "cap"
    /\ cycle = "complete"
    /\ Cardinality(prev_open) = 6
    /\ result = "none"

(***************************************************************************)
(* C15.  A failed open_position is counted by the breaker and leaves the   *)
(* loop where a skipped signal would leave it: the cycle goes on, the      *)
(* signals after the failed one are still to be taken, in their order,     *)
(* and the next thing the cycle does is to evaluate the first of them.     *)
(***************************************************************************)
C15_Attempting == {"leverage", "size", "entry", "stop", "close"}

C15_FailureContinuesLoop ==
    /\ [][ (pc \in C15_Attempting /\ result' = "raised")
              => /\ consecutive_failures' = consecutive_failures + 1
                 /\ pc' = "loop"
                 /\ signals' = Tail(signals)
                 /\ open_symbols' = open_symbols
                 /\ cycle' = cycle ]_vars
    /\ [](result = "raised" => (pc = "loop" /\ cycle = "running"))
    /\ [][ (result = "raised" /\ signals # <<>> /\ now' = now)
              => LET p == parse_signal(Head(signals))
                 IN  \/ verdict' = "unparsable"
                     \/ verdict' = "cap" /\ Cardinality(open_symbols) >= 7
                     \/ verdict' \in {"cooldown", "open"} /\ signals' = Tail(signals)
                                                          /\ pc' = "loop"
                     \/ verdict' = "attempt" /\ pc' = "leverage" /\ symbol' = p[2]
                                            /\ side' = p[3] /\ signals' = signals ]_vars

\* an attempt has failed on its entry order and a further signal waits in the loop
C15_Witness ==
    /\ result = "raised"
    /\ error = "entry_order"
    /\ pc = "loop"
    /\ signals # <<>>
    /\ cycle = "running"

(***************************************************************************)
(* C16 (stated as claimed; the code violates it).  A signal whose symbol   *)
(* ends in neither _LONG nor _SHORT is dropped without effect: the loop    *)
(* goes on with the signals after it, and nothing else changes.            *)
(***************************************************************************)
C16_UnparsableDropped ==
    [][ ( /\ pc = "loop"
          /\ Len(signals) >= 2
          /\ ~parse_signal(Head(signals))[1]
          /\ now' = now )
          => /\ pc' = "loop"
             /\ signals' = Tail(signals)
             /\ open_symbols' = open_symbols
             /\ cycle' = cycle
             /\ UNCHANGED safety ]_vars

(***************************************************************************)
(* C17.  A cycle that starts while the breaker is tripped and fewer than   *)
(* 900 s have passed since the trip does nothing: it stays outside the     *)
(* client block (no exchange call, no signal fetch, no order) and leaves   *)
(* consecutive_failures, the breaker flag, the trip time, last_closed,     *)
(* prev_open and initial_balance as they were.                             *)
(***************************************************************************)
C17_BlockedCycleIsNoOp ==
    [][ ( /\ pc = "idle"
          /\ now' = now
          /\ circuit_breaker_triggered
          /\ now - breaker_ts < 900 )
          => /\ cycle' = "breaker"
             /\ pc' = "idle"
             /\ UNCHANGED <<consecutive_failures, circuit_breaker_triggered, breaker_ts,
                            last_closed, prev_open, initial_balance>>
             /\ UNCHANGED <<open_symbols, signals, payload, attempt, orders, result, error>> ]_vars

\* a cycle was blocked some time after the trip, with positions and a balance
\* baseline on record
C17_Witness ==
    /\ cycle = "breaker"
    /\ pc = "idle"
    /\ circuit_breaker_triggered
    /\ now > breaker_ts
    /\ prev_open # {}
    /\ initial_balance # NoValue
    /\ \E s \in ExchangeSymbols : last_closed[s] # NoValue

(***************************************************************************)
(* C18.  process_signals always comes back to its caller by a return:      *)
(* whenever the cycle is left, after a failed client construction, account *)
(* read, margin read or signal fetch, an exception in the loop, or at its  *)
(* normal end, control is back with the scheduler, and an open_position    *)
(* that raised has been taken by the loop.                                 *)
(***************************************************************************)
C18_InCycle == {"account", "margin", "fetch", "loop", "leverage", "size", "entry", "stop", "close"}

C18_AlwaysReturns ==
    /\ [](pc \in C18_InCycle \cup {"idle"})
    /\ [][ (pc \in C18_InCycle /\ pc' \notin C18_InCycle)
              => /\ pc' = "idle"
                 /\ cycle' \in {"error", "margin", "fetch", "nosignals", "complete"} ]_vars
    /\ [][ result' = "raised"  => pc' = "loop" ]_vars

\* a cycle has ended on an exception raised after the account was read (the
\* margin read failed or a signal did not parse) and is back with the scheduler
C18_Witness ==
    /\ pc = "idle"
    /\ cycle = "error"
    /\ prev_open # {}

(***************************************************************************)
(* C20.  For an opportunities payload: an entry yields a signal exactly    *)
(* when its probability is >= 0.7 and its model_id holds the token _long_  *)
(* or _short_; the signals keep the order of the entries; a signal's       *)
(* symbol is the part of model_id before the token and its side is BUY     *)
(* for _long_ and SELL for _short_; and every open_position call is for    *)
(* the symbol and side of an entry that is not below the threshold.        *)
(* The symbol is compared after the alias table has been applied to it.    *)
(***************************************************************************)
C20_Tokens == {"_long_", "_short_"}

C20_Produces(opp) ==
    /\ opp.probability >= 70
    /\ \E i \in DOMAIN opp.model_id : opp.model_id[i] \in C20_Tokens

\* where the direction token stands in model_id
C20_At(opp) ==
    CHOOSE i \in DOMAIN opp.model_id :
        /\ opp.model_id[i] \in C20_Tokens
        /\ \A j \in 1..(i - 1) : opp.model_id[j] \notin C20_Tokens

RECURSIVE C20_Join(_)
C20_Join(str) == IF str = <<>> THEN "" ELSE Head(str) \o C20_Join(Tail(str))

C20_Before(opp) == C20_Join(SubSeq(opp.model_id, 1, C20_At(opp) - 1))

C20_Side(opp) == IF opp.model_id[C20_At(opp)] = "_long_" THEN "BUY" ELSE "SELL"

\* the symbol the claim gives the signal: the part before the token, as it
\* stands (upper = FALSE) or in upper case (upper = TRUE)
C20_Symbol(opp, upper) == IF upper THEN Upper(C20_Before(opp)) ELSE C20_Before(opp)

\* the step that fetches an opportunities payload leaves the signals the claim says
C20_FetchOk(upper) ==
    (pc = "fetch" /\ pc' = "loop" /\ payload'.shape = "opportunities")
        => LET expected == SelectSeq(payload'.items, C20_Produces)
           IN  /\ Len(signals') = Len(expected)
               /\ \A k \in DOMAIN expected :
                     parse_signal(signals'[k]) =
                        <<TRUE, resolve_alias(C20_Symbol(expected[k], upper)),
                          C20_Side(expected[k])>>

\* the step that calls open_position does so for an entry at or above the threshold
C20_AttemptOk(upper) ==
    (pc = "loop" /\ pc' = "leverage" /\ payload.shape = "opportunities")
        => \E i \in DOMAIN payload.items :
             /\ C20_Produces(payload.items[i])
             /\ symbol' = resolve_alias(C20_Symbol(payload.items[i], upper))
             /\ side' = C20_Side(payload.items[i])

\* C20 as claimed: the symbol is the part before the token as it stands
C20_SignalFromOpportunity ==
    [][ C20_FetchOk(FALSE) /\ C20_AttemptOk(FALSE) ]_vars

\* C20 as amended: the symbol is the part before the token in upper case
C20_UpperCasedSignalFromOpportunity ==
    [][ C20_FetchOk(TRUE) /\ C20_AttemptOk(TRUE) ]_vars

\* a payload whose first entry is below the threshold and whose second entry,
\* exactly at it, is in lower case: open_position is under way for the second
C20_Witness ==
    /\ pc = "leverage"
    /\ payload.shape = "opportunities"
    /\ Len(payload.items) = 2
    /\ payload.items[1].probability = 69
    /\ payload.items[2].probability = 70
    /\ payload.items[2].model_id = <<"btcusdt", "_short_", "v123">>
    /\ symbol = "BTCUSDT"
    /\ side = "SELL"

(***************************************************************************)
(* C21 (stated as claimed; the code violates it).  Whatever the shape of   *)
(* the payload (object array, delimited strings, opportunities), when it   *)
(* holds entries whose score is >= 0.7 the cycle goes on to the signal     *)
(* loop with one signal for each of them.                                  *)
(***************************************************************************)
C21_Qualifying(data) ==
    CASE data.shape = "opportunities" -> SelectSeq(data.items, C20_Produces)
      [] data.shape = "list" -> SelectSeq(data.items, LAMBDA item : item.confidence >= 70)
      [] data.shape = "strings" -> SelectSeq(data.items, LAMBDA item : item.score >= 70)
      [] OTHER -> <<>>

C21_EveryShapeReachesLoop ==
    [][ (pc = "fetch" /\ now' = now /\ C21_Qualifying(payload') # <<>>)
          => /\ pc' = "loop"
             /\ Len(signals') = Len(C21_Qualifying(payload')) ]_vars

(***************************************************************************)
(* C22.  Within one open_position the exchange calls come in the order     *)
(* leverage, entry, stop: the sizing and the entry order follow a          *)
(* set_leverage that succeeded, a failed set_leverage ends the attempt     *)
(* without any order, the first order of an attempt is its one market      *)
(* entry, and a stop order or an emergency close is sent only after the    *)
(* entry order was accepted.                                               *)
(***************************************************************************)
C22_LeverageEntryStop ==
    /\ [][ (pc' = "size" /\ pc # "size") => (pc = "leverage" /\ error' = "") ]_vars
    /\ [][ (pc' = "entry" /\ pc # "entry") => pc = "size" ]_vars
    /\ [][ (orders = <<>> /\ orders' # <<>>)
              => (pc = "entry" /\ Len(orders') = 1 /\ ~orders'[1].reduceOnly) ]_vars
    /\ [](error = "set_leverage" => (result = "raised" /\ orders = <<>>))
    /\ [](pc \in {"leverage", "size", "entry"} => orders = <<>>)
    /\ [](\A i \in DOMAIN orders :
            i > 1 => /\ orders[i].reduceOnly
                     /\ ~orders[1].reduceOnly
                     /\ orders[1].outcome = "ok")

\* an attempt has sent its entry order and then a stop order, both accepted
C22_Witness ==
    /\ Len(orders) = 2
    /\ ~orders[1].reduceOnly /\ orders[1].outcome = "ok"
    /\ orders[2].type = "STOP_MARKET" /\ orders[2].outcome = "ok"
    /\ result = "returned"

(***************************************************************************)
(* C23 (stated as claimed; the code violates it).  Within one cycle at     *)
(* most one market entry order is submitted for a symbol: no entry order   *)
(* goes out for a symbol the cycle has already sent one for.               *)
(***************************************************************************)
C23_OneEntryPerSymbol ==
    [][ (pc = "entry" /\ Len(orders') = 1) => symbol \notin entered ]_vars

(***************************************************************************)
(* C24.  The emergency close is sent after 21 stop candidates were all     *)
(* rejected with -1111; when it is accepted, open_position returns and the *)
(* loop takes the attempt as a success: the symbol joins open_symbols,     *)
(* consecutive_failures becomes 0 and the breaker is cleared.              *)
(***************************************************************************)
C24_AcceptedCloseIsSuccess ==
    /\ [](pc = "close"
            => /\ Cardinality(StopCalls) = 21
               /\ \A i \in StopCalls : orders[i].outcome = "-1111")
    /\ [][ (pc = "close" /\ Len(orders') = Len(orders) + 1
                         /\ orders'[Len(orders')].outcome = "ok")
              => /\ orders'[Len(orders')].reduceOnly
                 /\ orders'[Len(orders')].stop_price = NoValue
                 /\ result' = "returned"
                 /\ pc' = "loop"
                 /\ symbol \notin open_symbols
                 /\ open_symbols' = open_symbols \cup {symbol}
                 /\ consecutive_failures' = 0
                 /\ ~circuit_breaker_triggered' ]_vars

\* after earlier failures had tripped the breaker, an attempt has ended on an
\* accepted emergency close and has been taken as a success
C24_Witness ==
    /\ Len(orders) = 23
    /\ orders[23].stop_price = NoValue
    /\ orders[23].reduceOnly
    /\ orders[23].outcome = "ok"
    /\ result = "returned"
    /\ symbol \in open_symbols
    /\ breaker_ts > 0
    /\ consecutive_failures = 0
    /\ ~circuit_breaker_triggered

(***************************************************************************)
(* C25.  While the breaker is tripped its trip time is the time of the     *)
(* latest recorded failure: every failure that leaves consecutive_failures *)
(* at 3 or more, also one recorded while it already was 3 or more, stamps  *)
(* breaker_ts with the current time, and while the breaker stays tripped   *)
(* nothing else changes breaker_ts.                                        *)
(***************************************************************************)
C25_TripTimeIsLatestFailure ==
    /\ [][ (consecutive_failures' > consecutive_failures /\ consecutive_failures' >= 3)
              => /\ circuit_breaker_triggered'
                 /\ consecutive_failures' = consecutive_failures + 1
                 /\ breaker_ts' = now ]_vars
    /\ [][ ( /\ circuit_breaker_triggered
             /\ circuit_breaker_triggered'
             /\ consecutive_failures' = consecutive_failures )
              => breaker_ts' = breaker_ts ]_vars
    /\ [](circuit_breaker_triggered => breaker_ts <= now)

\* a fourth failure in a row, recorded while the breaker was already tripped, has
\* stamped the trip time with the latest instant
C25_Witness ==
    /\ circuit_breaker_triggered
    /\ consecutive_failures = 4
    /\ result = "raised"
    /\ pc = "loop"
    /\ breaker_ts = now
    /\ now = 1900

=============================================================================
